---- MODULE Spec2Model ----
(***************************************************************************)
(* Model of songbird's gateway error layer, src/error.rs: the JoinError    *)
(* enum, its two recovery predicates, its Display and Error (source)       *)
(* implementations and the four From conversions.                          *)
(*                                                                         *)
(* A JoinError is built once (directly for a protocol-level case, through  *)
(* `from` for a backend or driver error), is then inspected any number of  *)
(* times by the caller, and is finally dropped.  The results of the        *)
(* inspections are recorded in state variables so that the properties      *)
(* below speak about what the code returned.                               *)
(***************************************************************************)
EXTENDS Naturals, Sequences, FiniteSets, TLC

\* Number of distinct display texts a foreign (wrapped) error may render.
NumTexts == 2
\* Number of distinct underlying causes a foreign error may report as its
\* own source (0 stands for "no source").
NumCauses == 1
\* Largest number of write calls the formatter's sink accepts before it
\* reports fmt::Error.
MaxBudget == 3

VARIABLES features, err, origin, leave, reconnect, src, fmtOut

vars == <<features, err, origin, leave, reconnect, src, fmtOut>>

----------------------------------------------------------------------------
\* Option<T>
None == [some |-> FALSE]
Some(x) == [some |-> TRUE, val |-> x]

\* Cargo features that gate parts of the file (gateway-core is on whenever
\* JoinError exists at all).
OptionalFeatures == {"driver-core", "serenity", "twilight"}

----------------------------------------------------------------------------
\* Foreign error types.  The file never looks inside them: it only moves
\* them, calls their Display (fmt) and their Error::source.  They are kept
\* opaque: every display text and every optional underlying cause occurs.
ForeignError(ty) == [type : {ty}, text : 1..NumTexts, source : 0..NumCauses]

\* futures::channel::mpsc::TrySendError<serenity::gateway::InterMessage>
TrySendError == ForeignError("TrySendError")
\* twilight_gateway::shard::CommandError
CommandError == ForeignError("CommandError")
\* twilight_gateway::cluster::ClusterCommandError
ClusterCommandError == ForeignError("ClusterCommandError")
\* crate::driver::connection::error::Error
ConnectionError == ForeignError("ConnectionError")

\* The error beneath a foreign error, as a value of its own.
Cause(i) == [type |-> "Cause", text |-> i, source |-> 0]

\* <foreign error as Display>::fmt renders the error's own text.
ErrText(e) == e.type \o " #" \o ToString(e.text)
\* <foreign error as Error>::source: the error's own underlying cause.
ErrSource(e) == IF e.source = 0 THEN None ELSE Some(Cause(e.source))

----------------------------------------------------------------------------
\* enum JoinError
ProtocolTags ==
    {"Dropped", "NoSender", "NoCall", "TimedOut", "IllegalGuild", "IllegalChannel"}
WrapperTags == {"Driver", "Serenity", "TwilightCluster", "TwilightShard"}

Unit(t) == [tag |-> t]
Driver(e) == [tag |-> "Driver", e |-> e]
Serenity(e) == [tag |-> "Serenity", e |-> e]
TwilightCluster(e) == [tag |-> "TwilightCluster", e |-> e]
TwilightShard(e) == [tag |-> "TwilightShard", e |-> e]

\* The variants' documentation: those that tell users to `leave` the server
\* on the gateway before re-attempting connection.
LeaveDocumented == {"TimedOut", "Driver"}

----------------------------------------------------------------------------
\* impl JoinError

should_leave_server_driver_too(self) == self.tag \in {"TimedOut", "Driver"}
should_leave_server(self) == self.tag = "TimedOut"

should_reconnect_driver_any_wrapper(self) == self.tag \in WrapperTags
should_reconnect_driver(self) == self.tag = "Driver"

----------------------------------------------------------------------------
\* fmt::Formatter: the pieces written so far and the number of further
\* write calls the sink accepts.
Formatter(budget) == [buf |-> <<>>, budget |-> budget]

\* write!(f, s): one write call; Err when the sink refuses it.
Write(f, s) ==
    IF f.budget = 0
    THEN [ok |-> FALSE, f |-> f]
    ELSE [ok |-> TRUE, f |-> [buf |-> Append(f.buf, s), budget |-> f.budget - 1]]

Prefix == "failed to join voice channel: "

FmtCaseFixedBackend(self, f) ==
    CASE self.tag = "Dropped" -> Write(f, "request was cancelled/dropped")
      [] self.tag = "NoSender" -> Write(f, "no gateway destination")
      [] self.tag = "NoCall" -> Write(f, "tried to leave a non-existent call")
      [] self.tag = "TimedOut" -> Write(f, "gateway response from Discord timed out")
      [] self.tag = "IllegalGuild" -> Write(f, "target guild ID was zero")
      [] self.tag = "IllegalChannel" -> Write(f, "target channel ID was zero")
      [] self.tag = "Driver" -> Write(f, "establishing connection failed")
      [] OTHER -> Write(f, "sending the gateway command failed")
\* The case-specific part of JoinError's fmt (the match).
FmtCase(self, f) ==
    CASE self.tag = "Dropped" -> Write(f, "request was cancelled/dropped")
      [] self.tag = "NoSender" -> Write(f, "no gateway destination")
      [] self.tag = "NoCall" -> Write(f, "tried to leave a non-existent call")
      [] self.tag = "TimedOut" -> Write(f, "gateway response from Discord timed out")
      [] self.tag = "IllegalGuild" -> Write(f, "target guild ID was zero")
      [] self.tag = "IllegalChannel" -> Write(f, "target channel ID was zero")
      [] self.tag = "Driver" -> Write(f, "establishing connection failed")
      [] self.tag = "Serenity" -> Write(f, ErrText(self.e))
      [] self.tag = "TwilightCluster" -> Write(f, ErrText(self.e))
      [] self.tag = "TwilightShard" -> Write(f, ErrText(self.e))

FmtCaseFirst(self, f) ==
    LET r == FmtCase(self, f)
    IN  IF r.ok THEN Write(r.f, Prefix) ELSE r
\* impl fmt::Display for JoinError: the prefix, `?`, then the match.
Fmt(self, f) ==
    LET r == Write(f, Prefix)
    IN  IF ~r.ok THEN r ELSE FmtCase(self, r.f)

----------------------------------------------------------------------------
SourceDropsDriver(self) ==
    CASE self.tag \in ProtocolTags -> None
      [] self.tag = "Driver" -> None
      [] OTHER -> ErrSource(self.e)
SourceOfTimeout(self) ==
    CASE self.tag = "TimedOut" -> Some(Cause(1))
      [] self.tag \in ProtocolTags -> None
      [] self.tag = "Driver" -> Some(self.e)
      [] OTHER -> ErrSource(self.e)
\* impl Error for JoinError: source
Source(self) ==
    CASE self.tag = "Dropped" -> None
      [] self.tag = "NoSender" -> None
      [] self.tag = "NoCall" -> None
      [] self.tag = "TimedOut" -> None
      [] self.tag = "IllegalGuild" -> None
      [] self.tag = "IllegalChannel" -> None
      [] self.tag = "Driver" -> Some(self.e)
      [] self.tag = "Serenity" -> ErrSource(self.e)
      [] self.tag = "TwilightCluster" -> ErrSource(self.e)
      [] self.tag = "TwilightShard" -> ErrSource(self.e)

----------------------------------------------------------------------------
\* impl From<...> for JoinError
FromTrySendError(e) == Serenity(e)

FromCommandErrorAsCluster(e) == TwilightCluster(e)
FromCommandError(e) == TwilightShard(e)

FromClusterCommandError(e) == TwilightCluster(e)

FromConnectionError(e) == Driver(e)

----------------------------------------------------------------------------
\* State.
\*   features   the cargo features of the build
\*   err        Option<JoinError>: the error value the caller holds
\*   origin     Option<foreign error>: what was handed to `from`, if anything
\*   leave      Option<bool>: what should_leave_server returned
\*   reconnect  Option<bool>: what should_reconnect_driver returned
\*   src        Option<Option<error>>: what source() returned
\*   fmtOut     Option<[ok, f]>: what fmt returned and left in the formatter

Init ==
    /\ features \in SUBSET OptionalFeatures
    /\ err = None
    /\ origin = None
    /\ leave = None
    /\ reconnect = None
    /\ src = None
    /\ fmtOut = None

Fresh(e, o) ==
    /\ err = None
    /\ err' = Some(e)
    /\ origin' = o
    /\ UNCHANGED <<features, leave, reconnect, src, fmtOut>>

\* A protocol-level failure is detected: the unit variant is built.
Construct(t) ==
    /\ t \in ProtocolTags
    /\ Fresh(Unit(t), None)

\* JoinError::from(e) for each foreign error type the build has.
ConvertTrySendError(e) ==
    /\ "serenity" \in features
    /\ Fresh(FromTrySendError(e), Some(e))

ConvertCommandError(e) ==
    /\ "twilight" \in features
    /\ Fresh(FromCommandError(e), Some(e))

ConvertClusterCommandError(e) ==
    /\ "twilight" \in features
    /\ Fresh(FromClusterCommandError(e), Some(e))

ConvertConnectionError(e) ==
    /\ "driver-core" \in features
    /\ Fresh(FromConnectionError(e), Some(e))

CallShouldLeaveServer ==
    /\ err.some
    /\ leave' = Some(should_leave_server(err.val))
    /\ UNCHANGED <<features, err, origin, reconnect, src, fmtOut>>

CallShouldReconnectDriver ==
    /\ err.some
    /\ "driver-core" \in features
    /\ reconnect' = Some(should_reconnect_driver(err.val))
    /\ UNCHANGED <<features, err, origin, leave, src, fmtOut>>

CallSource ==
    /\ err.some
    /\ src' = Some(Source(err.val))
    /\ UNCHANGED <<features, err, origin, leave, reconnect, fmtOut>>

\* Display::fmt into a fresh formatter whose sink accepts `budget` writes.
CallFmt(budget) ==
    /\ err.some
    /\ fmtOut' = Some(Fmt(err.val, Formatter(budget)))
    /\ UNCHANGED <<features, err, origin, leave, reconnect, src>>

\* The error value goes out of scope.
Drop ==
    /\ err.some
    /\ err' = None
    /\ origin' = None
    /\ leave' = None
    /\ reconnect' = None
    /\ src' = None
    /\ fmtOut' = None
    /\ UNCHANGED features

Next ==
    \/ \E t \in ProtocolTags : Construct(t)
    \/ \E e \in TrySendError : ConvertTrySendError(e)
    \/ \E e \in CommandError : ConvertCommandError(e)
    \/ \E e \in ClusterCommandError : ConvertClusterCommandError(e)
    \/ \E e \in ConnectionError : ConvertConnectionError(e)
    \/ CallShouldLeaveServer
    \/ CallShouldReconnectDriver
    \/ CallSource
    \/ \E b \in 0..MaxBudget : CallFmt(b)
    \/ Drop

Spec == Init /\ [][Next]_vars

----------------------------------------------------------------------------
TypeOK ==
    /\ features \subseteq OptionalFeatures
    /\ err.some \in BOOLEAN
    /\ err.some => err.val.tag \in ProtocolTags \cup WrapperTags
    /\ leave.some => leave.val \in BOOLEAN
    /\ reconnect.some => reconnect.val \in BOOLEAN

----------------------------------------------------------------------------
\* Properties.

\* The foreign errors handed to `from` that came from a gateway backend.
BackendTypes == {"TrySendError", "CommandError", "ClusterCommandError"}
BackendTags == {"Serenity", "TwilightCluster", "TwilightShard"}

C2_ReconnectIffDriver ==
    reconnect.some => (reconnect.val <=> err.val.tag = "Driver")

C2_Witness ==
    /\ reconnect.some /\ reconnect.val
    /\ err.val.tag = "Driver"
    /\ err.val.e.text = NumTexts /\ err.val.e.source = NumCauses

\* C3 as stated: after `from`, source() returns the converted error itself
\* (equal to it, with the same display text), never an absent source nor
\* another error.
C3_SourceIsWrapped ==
    (src.some /\ origin.some) =>
        /\ src.val.some
        /\ src.val.val = origin.val
        /\ ErrText(src.val.val) = ErrText(origin.val)

\* C3 amended: after `from`, source() returns the converted error itself
\* only for a driver connection error; for a backend send error it returns
\* what that error's own source() returns (the cause beneath it, or nothing).
C3_SourceAfterFrom ==
    (src.some /\ origin.some) =>
        IF origin.val.type = "ConnectionError"
        THEN /\ src.val.some
             /\ src.val.val = origin.val
             /\ ErrText(src.val.val) = ErrText(origin.val)
        ELSE src.val = ErrSource(origin.val)

C3_Witness ==
    /\ src.some /\ origin.some
    /\ origin.val.type = "ConnectionError"
    /\ src.val = Some(origin.val)

\* C4: source() is absent for each of the six protocol-level cases.
C4_NoSourceForProtocol ==
    (src.some /\ err.val.tag \in ProtocolTags) => src.val = None

C4_Witness ==
    /\ src.some /\ src.val = None
    /\ err.val.tag = "TimedOut"

\* C5: each `from` maps its error type to one fixed case and carries the
\* input unchanged as the payload; backend errors are never tagged Driver
\* and driver errors never tagged as a backend case.
C5_FromFixedCase ==
    origin.some =>
        /\ err.val.e = origin.val
        /\ origin.val.type = "TrySendError" => err.val.tag = "Serenity"
        /\ origin.val.type = "CommandError" => err.val.tag = "TwilightShard"
        /\ origin.val.type = "ClusterCommandError" => err.val.tag = "TwilightCluster"
        /\ origin.val.type = "ConnectionError" => err.val.tag = "Driver"
        /\ origin.val.type \in BackendTypes => err.val.tag # "Driver"
        /\ origin.val.type = "ConnectionError" => err.val.tag \notin BackendTags

C5_Witness ==
    /\ origin.some
    /\ origin.val.type = "CommandError"
    /\ err.val = TwilightShard(origin.val)

\* C6 as stated: for every wrapping JoinError, Driver included, the text
\* displayed after the prefix is the display of the wrapped error.
C6_WrappersDelegate ==
    (fmtOut.some /\ fmtOut.val.ok /\ err.val.tag \in WrapperTags) =>
        fmtOut.val.f.buf = <<Prefix, ErrText(err.val.e)>>

\* C6 amended: for the backend wrappers (Serenity, TwilightCluster,
\* TwilightShard) the text after the prefix is the display of the wrapped
\* error, so differently-rendering payloads display differently; Driver
\* displays a fixed text whatever it wraps.
C6_BackendsDelegate ==
    /\ (fmtOut.some /\ fmtOut.val.ok /\ err.val.tag \in BackendTags) =>
           fmtOut.val.f.buf = <<Prefix, ErrText(err.val.e)>>
    /\ (fmtOut.some /\ fmtOut.val.ok /\ err.val.tag = "Driver") =>
           fmtOut.val.f.buf = <<Prefix, "establishing connection failed">>
    /\ \A e1, e2 \in CommandError :
           ErrText(e1) # ErrText(e2) =>
               Fmt(TwilightShard(e1), Formatter(MaxBudget)).f.buf
                   # Fmt(TwilightShard(e2), Formatter(MaxBudget)).f.buf

C6_Witness ==
    /\ fmtOut.some /\ fmtOut.val.ok
    /\ err.val.tag = "Serenity"
    /\ fmtOut.val.f.buf = <<Prefix, ErrText(err.val.e)>>

\* C7: for every case the displayed message begins with the common prefix,
\* and the prefix is written before any case-specific text.
C7_PrefixFirst ==
    fmtOut.some =>
        /\ fmtOut.val.ok => Len(fmtOut.val.f.buf) >= 1
        /\ Len(fmtOut.val.f.buf) >= 1 => fmtOut.val.f.buf[1] = Prefix
        /\ \A i \in 2..Len(fmtOut.val.f.buf) : fmtOut.val.f.buf[i] # Prefix

C7_Witness ==
    /\ fmtOut.some /\ fmtOut.val.ok
    /\ err.val.tag = "TwilightCluster"
    /\ fmtOut.val.f.buf[1] = Prefix
    /\ Len(fmtOut.val.f.buf) = 2

\* C8: every case whose documentation tells users to `leave` the server
\* before re-attempting connection (TimedOut, Driver) makes
\* should_leave_server return true.
C8_DocumentedLeave ==
    (leave.some /\ err.val.tag \in LeaveDocumented) => leave.val

====
